---- MODULE Spec2Model ----
(***************************************************************************)
(* Model of the PSoC USBUART driver (src/src/usbuart_driver.c): two ring   *)
(* buffers between a foreground API and a periodic interrupt that moves    *)
(* bytes to and from the USB CDC endpoints.                                *)
(*                                                                         *)
(* Two contexts: the foreground (one API call at a time, stepping through  *)
(* its statements) and the tick interrupt int_usbuart_isr, which runs to   *)
(* completion and only while interrupts are enabled.                       *)
(***************************************************************************)
EXTENDS Integers, Sequences, FiniteSets, TLC

\* ------------------------------------------------------------ constants
RX_BUFFER_SIZE == 256
TX_BUFFER_SIZE == 256
USBUART_MAX_PACKET_SIZE == 64
TX_MAX_REJECT == 8
USBUART_LINE_TERMINATOR == 10

\* usbuart_driver_msg.h (frame layout; the sentinels are user chosen)
MSG_FIRST_BYTE == 165
MSG_LAST_BYTE == 126
MSG_HEADER_LENGTH == 2
MSG_FOOTER_LENGTH == 1
MSG_STRUCTURE_LENGTH == 3
MSG_LENGTH_OFFS_FROM_FIRST_BYTE == 1

\* ------------------------------------------------------------ bounds
\* put-* calls per behaviour, transmit side alone
MaxPuts == 2
\* put-* calls per behaviour on the loopback
MaxLoopPuts == 3
\* put-* calls per behaviour under a host that reconfigures
MaxCfgPuts == 1
\* OUT packets the host sends on its own per behaviour
MaxHostPackets == 1
\* put-line calls per behaviour on the loopback
MaxLinePuts == 1
\* put-message calls per behaviour on the loopback
MaxMsgPuts == 1
\* put-message calls per behaviour that fill both rings
MaxRingPuts == 1
\* get-byte calls that find a byte, per behaviour of the stalled receiver
MaxStallGets == 2
\* OUT packets per behaviour on the receive side: full packets of unframed
\* bytes first, then packets holding lines and messages
MaxRxFill == 4
MaxRxPackets == 2

\* ------------------------------------------------------------ arithmetic
\* uint8 arithmetic
U8(x) == x % 256

MIN(a, b) == IF a < b THEN a ELSE b

\* ------------------------------------------------------------ ring buffer
\* A ring is the sequence of its bytes, oldest (tail) first.
ringbuf_bytes_used(rb) == Len(rb)

ringbuf_bytes_free(rb, cap) == cap - Len(rb)

ringbuf_is_empty(rb) == Len(rb) = 0

\* Offset of the first byte equal to c at or after offset 0, bytes_used if none.
ringbuf_findchr(rb, c) ==
  IF \E i \in 1..Len(rb) : rb[i] = c
  THEN (CHOOSE i \in 1..Len(rb) : rb[i] = c /\ \A j \in 1..(i-1) : rb[j] # c) - 1
  ELSE Len(rb)

\* Copy-in that keeps every byte, whatever the capacity.
RingCopyInUnbounded(rb, data, cap) == rb \o data

\* Copy-in: on overflow the oldest bytes are overwritten.
ringbuf_memcpy_into(rb, data, cap) ==
  LET all == rb \o data
  IN  IF Len(all) <= cap THEN all ELSE SubSeq(all, Len(all) - cap + 1, Len(all))

\* Copy-out of n bytes: the bytes delivered; nothing when fewer are held.
ringbuf_copied(rb, n) == IF n <= Len(rb) THEN SubSeq(rb, 1, n) ELSE <<>>

\* Copy-out of n bytes: the ring left behind.
ringbuf_memcpy_from(rb, n) == IF n <= Len(rb) THEN SubSeq(rb, n + 1, Len(rb)) ELSE rb

\* Discard n bytes from the tail (at most what is held).
ringbuf_remove_from_tail(rb, n) == SubSeq(rb, MIN(n, Len(rb)) + 1, Len(rb))

\* The bytes a step took from the tail of ring rb, given the ring it left.
ringbuf_taken(rb, left) == SubSeq(rb, 1, Len(rb) - Len(left))

\* ------------------------------------------------------------ state
VARIABLES
  rx,          \* _rxBuffer
  tx,          \* _txBuffer
  txZlp,       \* _txZlpRequired
  txReject,    \* _txReject
  intEnabled,  \* global interrupt enable (FALSE inside a critical section)
  usbConfig,   \* USBUART_GetConfiguration(): 0 = not configured
  usbChanged,  \* USBUART_IsConfigurationChanged() flag (cleared by reading)
  cdcFresh,    \* CDC-Init was invoked since the last configuration change
  outFifo,     \* OUT packets offered by the host, oldest first
  loopback,    \* the host echoes every IN transfer as an OUT transfer
  fg,          \* the foreground: the running API call and its locals
  calls,       \* put-* calls left to make
  hostSent,    \* OUT packets the host sent on its own
  put,         \* bytes handed to the put operations on the loopback, in order
  got,         \* bytes returned by get-byte, in order
  ret,         \* last return of a get operation: [op, val, data]
  inToggle,    \* flips with every IN transfer issued
  lastInLen,   \* length of the most recent IN transfer, -1 if none
  purged,      \* a stall-recovery purge happened
  lost,        \* bytes discarded by the last tick's purge
  streak,      \* consecutive not-ready ticks over a continuously non-empty TX ring
  stall,       \* consecutive ticks that had a transfer due and found IN not ready
  wr,          \* TX write of the running call: [free, n] free space seen, bytes written
  staleAccess, \* an endpoint was accessed after a change and before CDC-Init
  unready,     \* an API call touched a ring or returned before calling _init_cdc
  unlocked,    \* an API call touched a ring with interrupts enabled
  csDepth      \* critical sections entered and not yet left by the foreground

ringVars == <<rx, tx, txZlp, txReject>>
usbVars  == <<usbConfig, usbChanged, cdcFresh, outFifo, loopback, hostSent>>
txObs    == <<inToggle, lastInLen, purged, lost, streak, stall>>
fgObs    == <<calls, put, got, ret, wr, unready, unlocked, csDepth>>
vars == <<rx, tx, txZlp, txReject, intEnabled, usbConfig, usbChanged, cdcFresh,
          outFifo, loopback, fg, calls, hostSent, put, got, ret,
          inToggle, lastInLen, purged, lost, streak, stall, wr, staleAccess,
          unready, unlocked, csDepth>>

NoWrite == [free |-> 0, n |-> 0]

\* `seen` is the RX ring as the running get-line or get-message call found it,
\* `taken` the bytes the call has removed from it so far.
Idle == [op |-> "none", pc |-> "idle", arg |-> <<>>, count |-> 0, len |-> 0,
         offs |-> 0, state |-> TRUE, ensured |-> FALSE, seen |-> <<>>,
         taken |-> <<>>]

\* ------------------------------------------------------------ init
\* State when usbuart_init returns: rings allocated and reset, the device
\* enumerated, the change flag cleared, CDC initialised, the tick running.
usbuart_init ==
  /\ rx = <<>> /\ tx = <<>>
  /\ txZlp = FALSE /\ txReject = 0
  /\ usbConfig = 1 /\ usbChanged = FALSE /\ cdcFresh = TRUE
  /\ intEnabled = TRUE

InitRest ==
  /\ outFifo = <<>> /\ fg = Idle /\ hostSent = 0
  /\ put = <<>> /\ got = <<>> /\ ret = [op |-> "none", val |-> 0, data |-> <<>>]
  /\ inToggle = FALSE /\ lastInLen = -1 /\ purged = FALSE /\ lost = 0 /\ streak = 0
  /\ stall = 0
  /\ wr = NoWrite /\ staleAccess = FALSE
  /\ unready = FALSE /\ unlocked = FALSE /\ csDepth = 0

\* ------------------------------------------------------------ servicer
\* rx_pump: the RX ring and the OUT FIFO it leaves. All or nothing: the
\* head packet is drained only if it fits in the free space.
\* rx_pump that takes as many bytes of the packet as fit and leaves the rest.
RxIsrPartial ==
  IF outFifo # <<>>
  THEN LET n == MIN(Len(Head(outFifo)), ringbuf_bytes_free(rx, RX_BUFFER_SIZE))
       IN  [rx   |-> rx \o SubSeq(Head(outFifo), 1, n),
            fifo |-> IF n = Len(Head(outFifo)) THEN Tail(outFifo)
                     ELSE <<SubSeq(Head(outFifo), n + 1, Len(Head(outFifo)))>>
                          \o Tail(outFifo)]
  ELSE [rx |-> rx, fifo |-> outFifo]

\* rx_pump that drains the packet without testing the free space.
RxIsrDrainsAlways ==
  IF outFifo # <<>>
  THEN [rx   |-> ringbuf_memcpy_into(rx, Head(outFifo), RX_BUFFER_SIZE),
        fifo |-> Tail(outFifo)]
  ELSE [rx |-> rx, fifo |-> outFifo]

_usbuart_rx_isr ==
  IF outFifo # <<>> /\ Len(Head(outFifo)) <= ringbuf_bytes_free(rx, RX_BUFFER_SIZE)
  THEN [rx   |-> ringbuf_memcpy_into(rx, Head(outFifo), RX_BUFFER_SIZE),
        fifo |-> Tail(outFifo)]
  ELSE [rx |-> rx, fifo |-> outFifo]

\* Variants of tx_pump: `run` is its entry condition, `limit` the reject
\* threshold, `rest` the TX ring left behind by a send, `kept` by a purge.
TxIsrVariant(ready, run, limit, rest, kept) ==
  LET count == MIN(ringbuf_bytes_used(tx), USBUART_MAX_PACKET_SIZE)
      quiet == [tx |-> tx, zlp |-> txZlp, reject |-> txReject,
                sent |-> FALSE, pkt |-> <<>>, purge |-> FALSE]
  IN  IF run
      THEN IF ready
           THEN [quiet EXCEPT !.tx = rest,
                              !.pkt = ringbuf_copied(tx, count),
                              !.sent = TRUE,
                              !.zlp = (count = USBUART_MAX_PACKET_SIZE),
                              !.reject = 0]
           ELSE IF U8(txReject + 1) > limit
                THEN [quiet EXCEPT !.tx = kept, !.reject = 0, !.purge = TRUE]
                ELSE [quiet EXCEPT !.reject = U8(txReject + 1)]
      ELSE quiet

\* tx_pump that clears the whole TX ring after sending one packet.
TxIsrClearsRing(ready) ==
  TxIsrVariant(ready, ~ringbuf_is_empty(tx) \/ txZlp, TX_MAX_REJECT, <<>>, <<>>)

\* tx_pump that runs only when the TX ring holds bytes, whatever the ZLP flag.
TxIsrIgnoresZlp(ready) ==
  TxIsrVariant(ready, ~ringbuf_is_empty(tx), TX_MAX_REJECT,
               ringbuf_memcpy_from(tx, MIN(Len(tx), USBUART_MAX_PACKET_SIZE)), <<>>)

\* tx_pump that purges one tick later.
TxIsrLatePurge(ready) ==
  TxIsrVariant(ready, ~ringbuf_is_empty(tx) \/ txZlp, TX_MAX_REJECT + 1,
               ringbuf_memcpy_from(tx, MIN(Len(tx), USBUART_MAX_PACKET_SIZE)), <<>>)

\* tx_pump whose stall recovery resets the counter but not the TX ring.
TxIsrNoPurge(ready) ==
  TxIsrVariant(ready, ~ringbuf_is_empty(tx) \/ txZlp, TX_MAX_REJECT,
               ringbuf_memcpy_from(tx, MIN(Len(tx), USBUART_MAX_PACKET_SIZE)), tx)

\* tx_pump that sets the ZLP flag after a full packet and never clears it.
TxIsrZlpSticky(ready) ==
  LET t == TxIsrVariant(ready, ~ringbuf_is_empty(tx) \/ txZlp, TX_MAX_REJECT,
                        ringbuf_memcpy_from(tx, MIN(Len(tx), USBUART_MAX_PACKET_SIZE)),
                        <<>>)
  IN  [t EXCEPT !.zlp = (txZlp \/ t.zlp)]

\* tx_pump whose stall recovery also clears the ZLP flag.
TxIsrPurgeClearsZlp(ready) ==
  LET t == TxIsrVariant(ready, ~ringbuf_is_empty(tx) \/ txZlp, TX_MAX_REJECT,
                        ringbuf_memcpy_from(tx, MIN(Len(tx), USBUART_MAX_PACKET_SIZE)),
                        <<>>)
  IN  [t EXCEPT !.zlp = (~t.purge /\ t.zlp)]

\* tx_pump that asks the IN endpoint on every tick, also with nothing to send.
TxIsrAsksAlways(ready) ==
  TxIsrVariant(ready, TRUE, TX_MAX_REJECT,
               ringbuf_memcpy_from(tx, MIN(Len(tx), USBUART_MAX_PACKET_SIZE)), <<>>)

\* tx_pump, given the answer of USBUART_CDCIsReady(): the TX state it leaves,
\* whether it issued an IN transfer (and its bytes), whether it purged.
_usbuart_tx_isr(ready) ==
  LET count == MIN(ringbuf_bytes_used(tx), USBUART_MAX_PACKET_SIZE)
      quiet == [tx |-> tx, zlp |-> txZlp, reject |-> txReject,
                sent |-> FALSE, pkt |-> <<>>, purge |-> FALSE]
  IN  IF ~ringbuf_is_empty(tx) \/ txZlp
      THEN IF ready
           THEN [quiet EXCEPT !.tx = ringbuf_memcpy_from(tx, count),
                              !.pkt = ringbuf_copied(tx, count),
                              !.sent = TRUE,
                              !.zlp = (count = USBUART_MAX_PACKET_SIZE),
                              !.reject = 0]
           ELSE IF U8(txReject + 1) > TX_MAX_REJECT
                THEN [quiet EXCEPT !.tx = <<>>, !.reject = 0, !.purge = TRUE]
                ELSE [quiet EXCEPT !.reject = U8(txReject + 1)]
      ELSE quiet

\* One tick: rx_pump then tx_pump, not interruptible, taken only while
\* interrupts are enabled.
int_usbuart_isr(ready) ==
  /\ intEnabled
  /\ LET r == _usbuart_rx_isr
         t == _usbuart_tx_isr(ready)
         busy == ~ready /\ tx # <<>>
     IN  /\ rx' = r.rx
         /\ tx' = t.tx
         /\ txZlp' = t.zlp
         /\ txReject' = t.reject
         /\ outFifo' = IF t.sent /\ loopback THEN Append(r.fifo, t.pkt) ELSE r.fifo
         /\ inToggle' = IF t.sent THEN ~inToggle ELSE inToggle
         /\ lastInLen' = IF t.sent THEN Len(t.pkt) ELSE lastInLen
         /\ purged' = (purged \/ t.purge)
         /\ lost' = IF t.purge THEN Len(tx) ELSE 0
         /\ streak' = IF busy /\ t.tx # <<>>
                      THEN MIN(streak + 1, TX_MAX_REJECT + 1) ELSE 0
         /\ stall' = IF ~ready /\ (tx # <<>> \/ txZlp)
                     THEN MIN(stall + 1, TX_MAX_REJECT + 1) ELSE 0
         /\ staleAccess' = (staleAccess \/ ~cdcFresh)
  /\ UNCHANGED <<intEnabled, usbConfig, usbChanged, cdcFresh, loopback, hostSent,
                 fg, fgObs>>

\* ------------------------------------------------------------ link supervisor
\* Where a call continues after _init_cdc.
AfterCdc(op) == IF op \in {"putch", "putline", "putmsg"} THEN "check" ELSE "copy"

\* _init_cdc(false), up to the test of the change flag (reading clears it).
_init_cdc ==
  /\ fg.pc = "cdc"
  /\ fg' = [fg EXCEPT !.ensured = TRUE,
                      !.pc = IF usbChanged THEN "cdc_wait" ELSE AfterCdc(fg.op)]
  /\ usbChanged' = FALSE
  /\ UNCHANGED <<ringVars, intEnabled, usbConfig, cdcFresh, outFifo, loopback,
                 hostSent, txObs, fgObs, staleAccess>>

\* _init_cdc after a reported change: spin until configured, clear the flag,
\* CDC-Init.
_init_cdc_wait ==
  /\ fg.pc = "cdc_wait"
  /\ usbConfig # 0
  /\ fg' = [fg EXCEPT !.pc = AfterCdc(fg.op)]
  /\ usbChanged' = FALSE
  /\ cdcFresh' = TRUE
  /\ UNCHANGED <<ringVars, intEnabled, usbConfig, outFifo, loopback,
                 hostSent, txObs, fgObs, staleAccess>>

\* ------------------------------------------------------------ critical section
\* CyEnterCriticalSection: save the interrupt state, disable interrupts.
EnterCritical(next) ==
  /\ fg' = [fg EXCEPT !.state = intEnabled, !.pc = next]
  /\ intEnabled' = FALSE
  /\ csDepth' = csDepth + 1

\* CyExitCriticalSection(state): restore the saved interrupt state.
ExitCritical(f) ==
  /\ fg' = f
  /\ intEnabled' = fg.state
  /\ csDepth' = csDepth - 1

\* A ring access by the foreground: note one made before _init_cdc or with
\* interrupts enabled.
Touch ==
  /\ unready' = (unready \/ ~fg.ensured)
  /\ unlocked' = (unlocked \/ intEnabled)

\* A return to the caller: note one made before _init_cdc.
Return == unready' = (unready \/ ~fg.ensured)

\* ------------------------------------------------------------ get-byte
\* The byte the next put-byte call supplies.
NextByte == U8(Len(put))

usbuart_getch ==
  \/ /\ fg.op = "none"                                  \* l.128: empty test
     /\ Touch
     /\ IF ringbuf_is_empty(rx)
        THEN /\ fg' = Idle
             /\ ret' = [op |-> "getch", val |-> 0, data |-> <<>>]
        ELSE /\ fg' = [Idle EXCEPT !.op = "getch", !.pc = "enter", !.count = 1]
             /\ ret' = ret
     /\ UNCHANGED <<ringVars, intEnabled, usbVars, txObs, calls, put, got, wr,
                    csDepth, staleAccess>>
  \/ /\ fg.op = "getch" /\ fg.pc = "enter"              \* l.132
     /\ EnterCritical("cdc")
     /\ UNCHANGED <<ringVars, usbVars, txObs, calls, put, got, ret, wr,
                    unready, unlocked, staleAccess>>
  \/ /\ fg.op = "getch" /\ fg.pc = "copy"               \* l.138
     /\ Touch
     /\ rx' = ringbuf_memcpy_from(rx, fg.count)
     /\ fg' = [fg EXCEPT !.arg = ringbuf_copied(rx, fg.count), !.pc = "exit"]
     /\ UNCHANGED <<tx, txZlp, txReject, intEnabled, usbVars, txObs, calls, put,
                    got, ret, wr, csDepth, staleAccess>>
  \/ /\ fg.op = "getch" /\ fg.pc = "exit"               \* l.141-143
     /\ ExitCritical(Idle)
     /\ Return
     /\ got' = got \o fg.arg
     /\ ret' = [op |-> "getch", val |-> fg.count, data |-> fg.arg]
     /\ UNCHANGED <<ringVars, usbVars, txObs, calls, put, wr, unlocked,
                    staleAccess>>

\* ------------------------------------------------------------ put-*
\* The wait loop and the write shared by the three put operations: `need` is
\* the free space asked for, `bytes` what is copied into the TX ring.
PutEnter ==                                             \* l.171, 260, 392
  /\ fg.pc = "enter"
  /\ EnterCritical("cdc")
  /\ UNCHANGED <<ringVars, usbVars, txObs, calls, put, got, ret, wr,
                 unready, unlocked, staleAccess>>

\* The free-space test that spins again without leaving the critical section.
PutCheckKeepsLock(need) ==
  /\ fg.pc = "check"
  /\ Touch
  /\ fg' = [fg EXCEPT !.pc = IF ringbuf_bytes_free(tx, TX_BUFFER_SIZE) >= need
                               THEN "write" ELSE "enter"]
  /\ UNCHANGED <<intEnabled, csDepth>>
  /\ UNCHANGED <<ringVars, usbVars, txObs, calls, put, got, ret, wr, staleAccess>>

PutCheck(need) ==                                       \* l.177-180
  /\ fg.pc = "check"
  /\ Touch
  /\ IF ringbuf_bytes_free(tx, TX_BUFFER_SIZE) >= need
     THEN /\ fg' = [fg EXCEPT !.pc = "write"]
          /\ UNCHANGED <<intEnabled, csDepth>>
     ELSE ExitCritical([fg EXCEPT !.pc = "enter"])
  /\ UNCHANGED <<ringVars, usbVars, txObs, calls, put, got, ret, wr, staleAccess>>

PutWrite(bytes) ==                                      \* l.184
  /\ fg.pc = "write"
  /\ Touch
  /\ tx' = ringbuf_memcpy_into(tx, bytes, TX_BUFFER_SIZE)
  /\ wr' = [free |-> ringbuf_bytes_free(tx, TX_BUFFER_SIZE), n |-> Len(bytes)]
  /\ fg' = [fg EXCEPT !.pc = "exit"]
  /\ UNCHANGED <<rx, txZlp, txReject, intEnabled, usbVars, txObs, calls, put,
                 got, ret, csDepth, staleAccess>>

PutExit ==                                              \* l.187
  /\ fg.pc = "exit"
  /\ ExitCritical(Idle)
  /\ Return
  /\ wr' = NoWrite
  /\ UNCHANGED <<ringVars, usbVars, txObs, calls, put, got, ret, unlocked,
                 staleAccess>>

PutCall(op, data, bytes) ==
  /\ fg.op = "none"
  /\ put' = IF loopback THEN put \o bytes ELSE put
  /\ calls > 0
  /\ calls' = calls - 1
  /\ fg' = [Idle EXCEPT !.op = op, !.pc = "enter", !.arg = data,
                        !.count = Len(data),
                        !.len = U8(Len(data) + MSG_STRUCTURE_LENGTH)]
  /\ UNCHANGED <<ringVars, intEnabled, usbVars, txObs, got, ret, wr,
                 unready, unlocked, csDepth, staleAccess>>

usbuart_putch ==
  \/ PutCall("putch", <<NextByte>>, <<NextByte>>)
  \/ /\ fg.op = "putch"
     /\ \/ PutEnter
        \/ PutCheck(fg.count)
        \/ PutWrite(fg.arg)
        \/ PutExit

\* A payload of n bytes holding neither the line terminator nor a sentinel.
Fill(n) == [i \in 1..n |-> 97 + (i % 26)]

usbuart_putline(inputs) ==
  \/ \E data \in inputs :
       PutCall("putline", data, data \o <<USBUART_LINE_TERMINATOR>>)
  \/ /\ fg.op = "putline"
     /\ \/ PutEnter
        \/ PutCheck(fg.count + 1)                       \* l.266: int arithmetic
        \/ PutWrite(fg.arg \o <<USBUART_LINE_TERMINATOR>>)   \* l.273-277
        \/ PutExit

\* A frame whose LENGTH byte counts the payload alone.
FrameCountsPayload(data, len) ==
  <<MSG_FIRST_BYTE, U8(Len(data))>> \o data \o <<MSG_LAST_BYTE>>

\* The frame put-message writes: msg_length is count + 3 in uint8.
Frame(data, len) == <<MSG_FIRST_BYTE, len>> \o data \o <<MSG_LAST_BYTE>>

usbuart_putmsg(inputs) ==
  \/ \E data \in inputs :
       PutCall("putmsg", data,                          \* l.387: uint8 msg_length
               Frame(data, U8(Len(data) + MSG_STRUCTURE_LENGTH)))
  \/ /\ fg.op = "putmsg"
     /\ \/ PutEnter
        \/ PutCheck(fg.len)                             \* l.398
        \/ PutWrite(Frame(fg.arg, fg.len))              \* l.405-413
        \/ PutExit

\* ------------------------------------------------------------ get-line
\* A get operation returning val and data to its caller.
GetReturn(op, val, data) ==
  /\ Return
  /\ ret' = [op |-> op, val |-> val, data |-> data]

\* The copy of get-line that leaves the terminator in the ring.
GetLineCopyKeepsTerminator(rb, offs) ==
  [rx   |-> ringbuf_memcpy_from(rb, offs),
   data |-> ringbuf_copied(rb, offs)]

\* l.223-226: copy out the bytes before the terminator, discard the terminator.
GetLineCopy(rb, offs) ==
  [rx   |-> ringbuf_remove_from_tail(ringbuf_memcpy_from(rb, offs), 1),
   data |-> ringbuf_copied(rb, offs)]

usbuart_getline ==
  \/ /\ fg.op = "none"                                  \* l.208: empty test
     /\ Touch
     /\ IF ringbuf_is_empty(rx)
        THEN fg' = Idle /\ ret' = [op |-> "getline", val |-> 0, data |-> <<>>]
        ELSE /\ fg' = [Idle EXCEPT !.op = "getline", !.pc = "find", !.seen = rx]
             /\ ret' = ret
     /\ UNCHANGED <<ringVars, intEnabled, usbVars, txObs, calls, put, got, wr,
                    csDepth, staleAccess>>
  \/ /\ fg.op = "getline" /\ fg.pc = "find"             \* l.212
     /\ Touch
     /\ fg' = [fg EXCEPT !.offs = ringbuf_findchr(rx, USBUART_LINE_TERMINATOR),
                         !.pc = "used"]
     /\ UNCHANGED <<ringVars, intEnabled, usbVars, txObs, calls, put, got, ret,
                    wr, csDepth, staleAccess>>
  \/ /\ fg.op = "getline" /\ fg.pc = "used"             \* l.213
     /\ Touch
     /\ IF fg.offs = ringbuf_bytes_used(rx)
        THEN fg' = Idle /\ ret' = [op |-> "getline", val |-> 0, data |-> <<>>]
        ELSE fg' = [fg EXCEPT !.pc = "enter"] /\ ret' = ret
     /\ UNCHANGED <<ringVars, intEnabled, usbVars, txObs, calls, put, got, wr,
                    csDepth, staleAccess>>
  \/ /\ fg.op = "getline" /\ fg.pc = "enter"            \* l.217
     /\ EnterCritical("cdc")
     /\ UNCHANGED <<ringVars, usbVars, txObs, calls, put, got, ret, wr,
                    unready, unlocked, staleAccess>>
  \/ /\ fg.op = "getline" /\ fg.pc = "copy"             \* l.223-226
     /\ Touch
     /\ LET c == GetLineCopy(rx, fg.offs)
        IN  /\ rx' = c.rx
            /\ fg' = [fg EXCEPT !.arg = c.data, !.pc = "exit",
                                !.taken = @ \o ringbuf_taken(rx, c.rx)]
     /\ UNCHANGED <<tx, txZlp, txReject, intEnabled, usbVars, txObs, calls, put,
                    got, ret, wr, csDepth, staleAccess>>
  \/ /\ fg.op = "getline" /\ fg.pc = "exit"             \* l.229-231
     /\ ExitCritical(Idle)
     /\ GetReturn("getline", U8(fg.offs), fg.arg)
     /\ UNCHANGED <<ringVars, usbVars, txObs, calls, put, got, wr, unlocked,
                    staleAccess>>

\* ------------------------------------------------------------ get-message
\* ringbuf_peek at an offset: the byte there; outside the bytes held the read
\* yields whatever lies in memory.
PeekUnknown == {0, MSG_LAST_BYTE}

ringbuf_peek(rb, offset) ==
  IF offset \in 0..(Len(rb) - 1) THEN {rb[offset + 1]} ELSE PeekUnknown

\* The copy of get-message that takes the payload without first discarding
\* the header.
GetMsgCopyKeepsHeader(rb, len) ==
  LET count == U8(len - MSG_STRUCTURE_LENGTH)
  IN  [rx    |-> ringbuf_remove_from_tail(ringbuf_memcpy_from(rb, count),
                                          MSG_FOOTER_LENGTH),
       data  |-> ringbuf_copied(rb, count),
       count |-> count]

\* l.349-356: discard the header, copy out msg_length - 3 bytes (uint8),
\* discard the footer.
GetMsgCopy(rb, len) ==
  LET count == U8(len - MSG_STRUCTURE_LENGTH)
      body  == ringbuf_remove_from_tail(rb, MSG_HEADER_LENGTH)
  IN  [rx    |-> ringbuf_remove_from_tail(ringbuf_memcpy_from(body, count),
                                          MSG_FOOTER_LENGTH),
       data  |-> ringbuf_copied(body, count),
       count |-> count]

\* The restart of get-message that discards the whole header.
GetMsgSkipHeader(rb) == ringbuf_remove_from_tail(rb, MSG_HEADER_LENGTH)

\* l.338-339: on a footer mismatch discard the first byte and search again.
GetMsgSkip(rb) == ringbuf_remove_from_tail(rb, MSG_LENGTH_OFFS_FROM_FIRST_BYTE)

usbuart_getmsg ==
  \/ /\ fg.op = "none"                                  \* l.303: empty test
     /\ Touch
     /\ IF ringbuf_is_empty(rx)
        THEN fg' = Idle /\ ret' = [op |-> "getmsg", val |-> 0, data |-> <<>>]
        ELSE /\ fg' = [Idle EXCEPT !.op = "getmsg", !.pc = "find", !.seen = rx]
             /\ ret' = ret
     /\ UNCHANGED <<ringVars, intEnabled, usbVars, txObs, calls, put, got, wr,
                    csDepth, staleAccess>>
  \/ /\ fg.op = "getmsg" /\ fg.pc = "find"              \* l.315
     /\ Touch
     /\ fg' = [fg EXCEPT !.offs = ringbuf_findchr(rx, MSG_FIRST_BYTE),
                         !.pc = "used"]
     /\ UNCHANGED <<ringVars, intEnabled, usbVars, txObs, calls, put, got, ret,
                    wr, csDepth, staleAccess>>
  \/ /\ fg.op = "getmsg" /\ fg.pc = "used"              \* l.316-317
     /\ Touch
     /\ IF fg.offs = ringbuf_bytes_used(rx)
        THEN fg' = Idle /\ ret' = [op |-> "getmsg", val |-> 0, data |-> <<>>]
        ELSE fg' = [fg EXCEPT !.pc = "strip"] /\ ret' = ret
     /\ UNCHANGED <<ringVars, intEnabled, usbVars, txObs, calls, put, got, wr,
                    csDepth, staleAccess>>
  \/ /\ fg.op = "getmsg" /\ fg.pc = "strip"             \* l.321-322
     /\ IF fg.offs # 0
        THEN Touch /\ rx' = ringbuf_remove_from_tail(rx, fg.offs)
        ELSE UNCHANGED <<rx, unready, unlocked>>
     /\ fg' = [fg EXCEPT !.pc = "hdr", !.taken = @ \o ringbuf_taken(rx, rx')]
     /\ UNCHANGED <<tx, txZlp, txReject, intEnabled, usbVars, txObs, calls, put,
                    got, ret, wr, csDepth, staleAccess>>
  \/ /\ fg.op = "getmsg" /\ fg.pc = "hdr"               \* l.325-326
     /\ Touch
     /\ IF ringbuf_bytes_used(rx) < MSG_HEADER_LENGTH
        THEN fg' = Idle /\ ret' = [op |-> "getmsg", val |-> 0, data |-> <<>>]
        ELSE fg' = [fg EXCEPT !.pc = "peeklen"] /\ ret' = ret
     /\ UNCHANGED <<ringVars, intEnabled, usbVars, txObs, calls, put, got, wr,
                    csDepth, staleAccess>>
  \/ /\ fg.op = "getmsg" /\ fg.pc = "peeklen"           \* l.327
     /\ Touch
     /\ \E b \in ringbuf_peek(rx, MSG_LENGTH_OFFS_FROM_FIRST_BYTE) :
          fg' = [fg EXCEPT !.len = b, !.pc = "avail"]
     /\ UNCHANGED <<ringVars, intEnabled, usbVars, txObs, calls, put, got, ret,
                    wr, csDepth, staleAccess>>
  \/ /\ fg.op = "getmsg" /\ fg.pc = "avail"             \* l.331-332
     /\ Touch
     /\ IF ringbuf_bytes_used(rx) < fg.len
        THEN fg' = Idle /\ ret' = [op |-> "getmsg", val |-> 0, data |-> <<>>]
        ELSE fg' = [fg EXCEPT !.pc = "peeklast"] /\ ret' = ret
     /\ UNCHANGED <<ringVars, intEnabled, usbVars, txObs, calls, put, got, wr,
                    csDepth, staleAccess>>
  \/ /\ fg.op = "getmsg" /\ fg.pc = "peeklast"          \* l.333-339
     /\ Touch
     /\ \E b \in ringbuf_peek(rx, fg.len - 1) :
          IF b = MSG_LAST_BYTE
          THEN fg' = [fg EXCEPT !.pc = "enter"] /\ rx' = rx
          ELSE /\ rx' = GetMsgSkip(rx)
               /\ fg' = [fg EXCEPT !.pc = "find",
                                   !.taken = @ \o ringbuf_taken(rx, rx')]
     /\ UNCHANGED <<tx, txZlp, txReject, intEnabled, usbVars, txObs, calls, put,
                    got, ret, wr, csDepth, staleAccess>>
  \/ /\ fg.op = "getmsg" /\ fg.pc = "enter"             \* l.343
     /\ EnterCritical("cdc")
     /\ UNCHANGED <<ringVars, usbVars, txObs, calls, put, got, ret, wr,
                    unready, unlocked, staleAccess>>
  \/ /\ fg.op = "getmsg" /\ fg.pc = "copy"              \* l.349-356
     /\ Touch
     /\ LET c == GetMsgCopy(rx, fg.len)
        IN  /\ rx' = c.rx
            /\ fg' = [fg EXCEPT !.count = c.count, !.arg = c.data, !.pc = "exit",
                                !.taken = @ \o ringbuf_taken(rx, c.rx)]
     /\ UNCHANGED <<tx, txZlp, txReject, intEnabled, usbVars, txObs, calls, put,
                    got, ret, wr, csDepth, staleAccess>>
  \/ /\ fg.op = "getmsg" /\ fg.pc = "exit"              \* l.359-361
     /\ ExitCritical(Idle)
     /\ GetReturn("getmsg", fg.count, fg.arg)
     /\ UNCHANGED <<ringVars, usbVars, txObs, calls, put, got, wr, unlocked,
                    staleAccess>>

\* ------------------------------------------------------------ host
\* The host sets a configuration (0 deconfigures): the USB stack's interrupt
\* records it and raises the change flag; the CDC state is no longer valid.
HostConfigure(c) ==
  /\ intEnabled
  /\ usbConfig' = c
  /\ usbChanged' = TRUE
  /\ cdcFresh' = FALSE
  /\ UNCHANGED <<ringVars, intEnabled, outFifo, loopback, hostSent, fg, txObs,
                 fgObs, staleAccess>>

\* The host sends an OUT packet of its own.
HostSend(pkt) ==
  /\ hostSent < MaxHostPackets
  /\ hostSent' = hostSent + 1
  /\ outFifo' = Append(outFifo, pkt)
  /\ UNCHANGED <<ringVars, intEnabled, usbConfig, usbChanged, cdcFresh, loopback,
                 fg, txObs, fgObs, staleAccess>>

\* The host offers an OUT packet once the endpoint has been drained of the
\* previous one.
HostOut(pkt) ==
  /\ outFifo = <<>>
  /\ hostSent < MaxRxFill + MaxRxPackets
  /\ hostSent' = (IF hostSent < MaxRxFill THEN MaxRxFill ELSE hostSent) + 1
  /\ outFifo' = <<pkt>>
  /\ UNCHANGED <<ringVars, intEnabled, usbConfig, usbChanged, cdcFresh, loopback,
                 fg, txObs, fgObs, staleAccess>>

\* The host offers a full packet of bytes that belong to no line or message,
\* before it sends any line or message.
HostFill ==
  /\ outFifo = <<>>
  /\ hostSent < MaxRxFill
  /\ hostSent' = hostSent + 1
  /\ outFifo' = <<Fill(USBUART_MAX_PACKET_SIZE)>>
  /\ UNCHANGED <<ringVars, intEnabled, usbConfig, usbChanged, cdcFresh, loopback,
                 fg, txObs, fgObs, staleAccess>>

\* ------------------------------------------------------------ specifications
\* Inputs of the put operations: a line filling exactly one packet with its
\* terminator, one of 100 bytes with it, one filling the whole ring; a short
\* message, the longest one a length byte can describe, and one too long.
TxLines == {Fill(63), Fill(99), Fill(255)}
TxMsgs == {Fill(1), Fill(252), Fill(253)}

\* OUT packets of the host: a line, a framed message, bytes without a frame.
HostPackets == {<<104, 105, USBUART_LINE_TERMINATOR>>,
                Frame(<<65, 66>>, 5),
                <<255, MSG_FIRST_BYTE>>}

Tick == \E ready \in BOOLEAN : int_usbuart_isr(ready)

\* Foreground and servicer over a host that may reconfigure the device and
\* send packets of its own.
Init == usbuart_init /\ InitRest /\ loopback = FALSE /\ calls = MaxCfgPuts

Next ==
  \/ Tick
  \/ _init_cdc
  \/ _init_cdc_wait
  \/ usbuart_getch
  \/ usbuart_putch
  \/ usbuart_getline
  \/ usbuart_putline({Fill(2)})
  \/ usbuart_getmsg
  \/ usbuart_putmsg({Fill(2)})
  \/ \E c \in {0, 1} : HostConfigure(c)
  \/ \E pkt \in HostPackets : HostSend(pkt)

Spec == Init /\ [][Next]_vars

\* The transmit side alone: the host only takes IN transfers, the
\* configuration is stable.
NextTx ==
  \/ Tick
  \/ _init_cdc
  \/ usbuart_putch
  \/ usbuart_putline(TxLines)
  \/ usbuart_putmsg(TxMsgs)

InitTx == usbuart_init /\ InitRest /\ loopback = FALSE /\ calls = MaxPuts

SpecTx == InitTx /\ [][NextTx]_vars

\* The transmit side with its scheduling: the tick interrupt is latched, so it
\* is taken once interrupts are enabled again however briefly (strong
\* fairness); the foreground keeps executing the call it is in.
Foreground ==
  \/ _init_cdc
  \/ usbuart_putch
  \/ usbuart_putline(TxLines)
  \/ usbuart_putmsg(TxMsgs)

SpecLive ==
  /\ InitTx /\ [][NextTx]_vars
  /\ SF_vars(Tick)
  /\ WF_vars(fg.op # "none" /\ Foreground)

\* The receive side alone: the host offers packets, the application reads
\* lines and messages. RxPackets: a line followed by one more byte; a message
\* after two bytes of garbage; a false start of a message followed by a
\* message; a frame lacking its first byte.
RxPackets ==
  {<<72, 101, 108, 108, 111, USBUART_LINE_TERMINATOR, 87>>,
   <<255, 255>> \o Frame(<<65, 66, 67>>, 6),
   <<MSG_FIRST_BYTE, 5, 88, 89, 90>> \o Frame(<<65, 66>>, 5),
   <<1, 5, 65, 66, MSG_LAST_BYTE>>}

InitRx == usbuart_init /\ InitRest /\ loopback = FALSE /\ calls = 0

NextRx ==
  \/ Tick
  \/ _init_cdc
  \/ usbuart_getline
  \/ usbuart_getmsg
  \/ \E pkt \in RxPackets : HostOut(pkt)
  \/ HostFill

SpecRx == InitRx /\ [][NextRx]_vars

\* A receiver that falls behind: full packets of unframed bytes, then packets
\* of 10 bytes (unframed, or a false start followed by a message), read by all
\* three getters.
StallPackets ==
  {Fill(10), <<MSG_FIRST_BYTE, 5, 88, 89, 90>> \o Frame(<<65, 66>>, 5)}

NextStall ==
  \/ Tick
  \/ _init_cdc
  \/ (fg.op = "none" => Len(got) < MaxStallGets) /\ usbuart_getch
  \/ usbuart_getline
  \/ usbuart_getmsg
  \/ \E pkt \in StallPackets : HostOut(pkt)
  \/ HostFill

SpecStall == InitRx /\ [][NextStall]_vars

\* Loopback: every IN transfer comes back, in order, as an OUT transfer. The
\* application sends single bytes, after at most one line that fills a packet.
InitLoop == usbuart_init /\ InitRest /\ loopback = TRUE /\ calls = MaxLoopPuts

NextLoop ==
  \/ Tick
  \/ _init_cdc
  \/ usbuart_getch
  \/ usbuart_putch
  \/ (fg.op = "none" => put = <<>>) /\ usbuart_putline({Fill(63)})

SpecLoop == InitLoop /\ [][NextLoop]_vars

\* Lines on the loopback: one byte, a line filling one packet with its
\* terminator, a line sent as two packets, the longest line.
LoopLines == {Fill(1), Fill(63), Fill(99), Fill(255)}

InitLine == usbuart_init /\ InitRest /\ loopback = TRUE /\ calls = MaxLinePuts

NextLine ==
  \/ Tick
  \/ _init_cdc
  \/ usbuart_putline(LoopLines)
  \/ usbuart_getline

SpecLine == InitLine /\ [][NextLine]_vars

\* Messages on the loopback: payloads made of the sentinels, a payload whose
\* frame fills one packet, the longest payload (with sentinels inside).
LoopMsgs ==
  {<<MSG_FIRST_BYTE>>,
   <<MSG_LAST_BYTE, MSG_FIRST_BYTE, 7>>,
   Fill(61),
   [i \in 1..252 |-> IF i % 7 = 0 THEN MSG_FIRST_BYTE
                     ELSE IF i % 5 = 0 THEN MSG_LAST_BYTE ELSE 97 + (i % 26)]}

InitMsg == usbuart_init /\ InitRest /\ loopback = TRUE /\ calls = MaxMsgPuts

NextMsg ==
  \/ Tick
  \/ _init_cdc
  \/ usbuart_putmsg(LoopMsgs)
  \/ usbuart_getmsg

SpecMsg == InitMsg /\ [][NextMsg]_vars

\* Both rings up to their capacity: short messages and a message of 254 bytes
\* (257 with its frame) on the loopback.
InitRing == usbuart_init /\ InitRest /\ loopback = TRUE /\ calls = MaxRingPuts

NextRing ==
  \/ Tick
  \/ _init_cdc
  \/ usbuart_putmsg({Fill(2), Fill(254)})
  \/ usbuart_getmsg

SpecRing == InitRing /\ [][NextRing]_vars

\* ------------------------------------------------------------ claims
IsPrefix(a, b) == Len(a) <= Len(b) /\ SubSeq(b, 1, Len(a)) = a

\* C1: on a loopback, as long as no stall-recovery purge has occurred, the
\* bytes returned so far by get-byte are a prefix of the bytes handed to the
\* put operations (single bytes, and the line with its terminator): nothing is
\* duplicated, dropped or reordered, across packets of any size.
C1_Fifo == ~purged => IsPrefix(got, put)

\* C1 witness: 66 bytes, sent as more than one packet, all read back in order.
C1_Witness == ~purged /\ Len(got) = 66 /\ got = put

\* C2: once an IN transfer of exactly 64 bytes was issued, and until the next
\* transfer, a tx_pump that finds the IN endpoint ready issues an IN transfer,
\* of zero length if the TX ring is empty and of min(used, 64) bytes otherwise;
\* a 64-byte transfer sets the ZLP-required flag, and no step (put, not-ready
\* tick, purge) clears the flag without issuing a transfer.
C2_ZlpNeverSkipped ==
  /\ [](lastInLen = USBUART_MAX_PACKET_SIZE =>
          LET t == _usbuart_tx_isr(TRUE)
          IN  /\ t.sent
              /\ Len(t.pkt) = MIN(Len(tx), USBUART_MAX_PACKET_SIZE)
              /\ (Len(t.pkt) = 0 <=> tx = <<>>))
  /\ [][ /\ (inToggle' # inToggle /\ lastInLen' = USBUART_MAX_PACKET_SIZE) => txZlp'
         /\ (txZlp /\ ~txZlp') => inToggle' # inToggle ]_vars

\* C2 witness: a zero-length packet was sent after a 64-byte transfer although
\* a purge came in between.
C2_Witness == lastInLen = 0 /\ ~txZlp /\ purged /\ tx = <<>>

\* C3: when TX_MAX_REJECT (8) consecutive ticks have found the IN endpoint not
\* ready over a TX ring that stayed non-empty, the next tick that again finds
\* it not ready (the 9th) empties the TX ring, transmits nothing and resets the
\* TX-reject counter to 0.
C3_StallPurge ==
  streak = TX_MAX_REJECT =>
    LET t == _usbuart_tx_isr(FALSE)
    IN  t.purge /\ t.tx = <<>> /\ t.reject = 0 /\ ~t.sent

\* C3 witness: 100 bytes were queued, the IN endpoint was never ready, and the
\* purge discarded all 100 of them: ring empty, counter 0, nothing transmitted.
C3_Witness ==
  lost = 100 /\ lastInLen = -1 /\ tx = <<>> /\ txReject = 0 /\ fg.op = "none"

\* C4: with ticks that keep occurring and a stable configuration, every call
\* of put-byte, put-line and put-message returns, whatever the IN endpoint
\* answers: the servicer drains the TX ring or the stall recovery purges it.
C4_PutReturns == (fg.op \in {"putch", "putline", "putmsg"}) ~> (fg.op = "none")

\* C4 witness: a second line of 255 bytes was written after waiting for a full
\* ring that only the purge emptied.
C4_Witness ==
  lost = 256 /\ lastInLen = -1 /\ Len(tx) = 256 /\ fg.op = "none"

\* C5: every copy into the TX ring by put-byte, put-line and put-message, for
\* every count in 1..255, writes no more bytes than the free space observed in
\* the same critical section (seen right after the write).
C5_WriteFits == fg.pc = "exit" => wr.n <= wr.free

\* C6: after a configuration change no endpoint is accessed, by rx_pump, by
\* tx_pump or by an API operation, before CDC-Init was invoked for that change.
C6_NoStaleEndpointAccess == ~staleAccess

\* C7: every API call with valid arguments calls ensure-ready (_init_cdc)
\* before it reads or modifies a ring and before it returns, also when the RX
\* ring is empty or holds no complete frame.
C7_EnsureReadyFirst == ~unready

\* C8: every read and every mutation of a ring by an API operation happens
\* while the critical section is held (interrupts disabled).
C8_RingAccessLocked == ~unlocked

\* C9: after bring-up no API operation sits in the wait-for-enumeration loop
\* of ensure-ready waiting for the host to configure the device.
C9_NeverWaitsForHost == ~(fg.pc = "cdc_wait" /\ usbConfig = 0)

PutOps == {"putch", "putline", "putmsg"}

\* C10: in put-byte, put-line and put-message every enter-critical is matched
\* by one exit-critical: the section is never entered twice, it is released
\* whenever the wait loop starts another iteration, it is held from the
\* free-space test through the writes, and it is not held once the call has
\* returned.
C10_CriticalPaired ==
  /\ csDepth = (IF intEnabled THEN 0 ELSE 1)
  /\ (fg.op = "none" => intEnabled)
  /\ (fg.op \in PutOps => (fg.pc = "enter" <=> intEnabled))
  /\ (fg.op \in PutOps /\ fg.pc # "enter" => fg.state = TRUE)

\* C10 witness: a put-message found too little space, released the critical
\* section and is about to enter it again.
C10_Witness ==
  fg.op = "putmsg" /\ fg.pc = "enter" /\ fg.ensured /\ intEnabled /\ csDepth = 0

\* C12: rx_pump is all or nothing. When the OUT endpoint holds a packet and
\* its byte count is at most bytes_free(RX), rx_pump appends all its bytes, in
\* order, behind the bytes the RX ring holds and drains the packet; when there
\* is no packet or it does not fit, rx_pump leaves the RX ring and the OUT
\* endpoint as they are, so the same packet is offered to the next tick. Every
\* tick (a step of neither the foreground nor the host) changes the RX ring
\* and the OUT endpoint exactly so.
RxFits == outFifo # <<>> /\ Len(Head(outFifo)) <= RX_BUFFER_SIZE - Len(rx)

C12_RxAllOrNothing ==
  [][ (intEnabled /\ UNCHANGED <<fg, fgObs, hostSent>>) =>
        IF RxFits
        THEN rx' = rx \o Head(outFifo) /\ outFifo' = Tail(outFifo)
        ELSE rx' = rx /\ outFifo' = outFifo ]_vars

\* C12 witness: the RX ring is full (256 bytes) and the host offers 10 bytes.
C12_Witness ==
  Len(rx) = RX_BUFFER_SIZE /\ outFifo # <<>> /\ Len(Head(outFifo)) = 10

\* A step in which the running call of `op` returns to its caller.
Returns(op) == fg.op = op /\ fg'.op = "none"

\* C13: when the RX ring holds LINE_TERMINATOR at the call of get-line, its
\* first occurrence at offset k, the call returns k and delivers the k oldest
\* bytes in order, has removed exactly those k bytes and the terminator, and
\* leaves the bytes behind the terminator (followed by what ticks appended) in
\* the ring, in order; and whenever get-line returns a non-zero value it has
\* removed exactly that many bytes plus one, however ticks interleave.
C13_GetLine ==
  [][ Returns("getline") =>
        LET k == ringbuf_findchr(fg.seen, USBUART_LINE_TERMINATOR)
        IN  /\ k < Len(fg.seen) =>
                 /\ ret'.val = k
                 /\ ret'.data = SubSeq(fg.seen, 1, k)
                 /\ fg.taken = SubSeq(fg.seen, 1, k + 1)
                 /\ IsPrefix(SubSeq(fg.seen, k + 2, Len(fg.seen)), rx')
            /\ ret'.val # 0 => Len(fg.taken) = ret'.val + 1 ]_vars

\* C13 witness: with H, e, l, l, o, terminator, W in the ring, get-line has
\* returned 5 and Hello, and W is what the ring holds.
C13_Witness ==
  /\ ret = [op |-> "getline", val |-> 5, data |-> <<72, 101, 108, 108, 111>>]
  /\ rx = <<87>> /\ fg.op = "none"

\* The last n bytes of sequence q.
LastBytes(q, n) == SubSeq(q, Len(q) - n + 1, Len(q))

\* C14: whenever get-message returns a non-zero value, the bytes it consumed
\* last are a complete well-formed frame that was in the RX ring: FIRST_BYTE,
\* a LENGTH byte of at least MSG_STRUCTURE_LENGTH (3), the payload and
\* LAST_BYTE at offset LENGTH - 1; the value returned is LENGTH - 3 (not
\* wrapped) and exactly that many payload bytes are delivered.
C14_WellFormedOnly ==
  [][ (Returns("getmsg") /\ ret'.val # 0) =>
        /\ fg.len >= MSG_STRUCTURE_LENGTH
        /\ ret'.val = fg.len - MSG_STRUCTURE_LENGTH
        /\ Len(ret'.data) = ret'.val
        /\ Len(fg.taken) >= fg.len
        /\ LastBytes(fg.taken, fg.len) = Frame(ret'.data, fg.len) ]_vars

\* C15: get-line and get-message remove bytes from the RX ring only in a call
\* that located a complete frame: a call of get-line has removed nothing, or
\* exactly a line and its terminator, which it delivers; a call of get-message
\* has removed nothing, or bytes ending with the well-formed message it
\* delivers. A call that returns 0 for want of a frame leaves what it found.
C15_ConsumeOnlyFrames ==
  [][ /\ Returns("getline") =>
           \/ fg.taken = <<>> /\ ret'.val = 0 /\ IsPrefix(fg.seen, rx')
           \/ /\ fg.taken = ret'.data \o <<USBUART_LINE_TERMINATOR>>
              /\ \A i \in 1..Len(ret'.data) : ret'.data[i] # USBUART_LINE_TERMINATOR
      /\ Returns("getmsg") =>
           \/ fg.taken = <<>> /\ ret'.val = 0 /\ IsPrefix(fg.seen, rx')
           \/ /\ fg.len >= MSG_STRUCTURE_LENGTH
              /\ Len(fg.taken) >= fg.len
              /\ LastBytes(fg.taken, fg.len) = Frame(ret'.data, fg.len) ]_vars

\* Byte sequence q holds, behind its first k bytes, none of them FIRST_BYTE, a
\* complete well-formed message.
FramedAt(q, k) ==
  /\ Len(q) >= k + MSG_HEADER_LENGTH
  /\ q[k + 2] >= MSG_STRUCTURE_LENGTH
  /\ Len(q) >= k + q[k + 2]
  /\ q[k + q[k + 2]] = MSG_LAST_BYTE

\* C16: when the RX ring holds, at the call of get-message, some bytes other
\* than FIRST_BYTE followed by a complete well-formed message, that one call
\* discards the preamble, delivers the payload, returns its length and leaves
\* in the ring only the bytes behind the message (and what ticks appended).
C16_PreambleSkipped ==
  [][ Returns("getmsg") =>
        LET k == ringbuf_findchr(fg.seen, MSG_FIRST_BYTE)
        IN  FramedAt(fg.seen, k) =>
            LET n == fg.seen[k + 2]
            IN  /\ ret'.val = n - MSG_STRUCTURE_LENGTH
                /\ ret'.data = SubSeq(fg.seen, k + MSG_HEADER_LENGTH + 1, k + n - 1)
                /\ fg.taken = SubSeq(fg.seen, 1, k + n)
                /\ IsPrefix(SubSeq(fg.seen, k + n + 1, Len(fg.seen)), rx') ]_vars

\* C16 witness: from FF FF FIRST 06 A B C LAST get-message has returned 3 and
\* A B C, and the ring is empty.
C16_Witness ==
  /\ ret = [op |-> "getmsg", val |-> 3, data |-> <<65, 66, 67>>]
  /\ rx = <<>> /\ fg.op = "none"

C17_LineRoundTrip ==
  [][ (Returns("getline") /\ ~purged /\ ret'.val # 0) =>
        /\ ret'.data \in LoopLines
        /\ ret'.val = Len(ret'.data)
        /\ IsPrefix(ret'.data \o <<USBUART_LINE_TERMINATOR>>, put) ]_vars

IsSuffix(a, b) == Len(a) <= Len(b) /\ SubSeq(b, Len(b) - Len(a) + 1, Len(b)) = a

RECURSIVE Flat(_)
\* The bytes of a sequence of packets, in order.
Flat(q) == IF q = <<>> THEN <<>> ELSE Head(q) \o Flat(Tail(q))

\* C18: on a loopback with both rings empty at the start and no purge, the
\* frames handed to put-message (payloads of 1..252 bytes, sentinel values
\* included) travel unchanged: what the TX ring, the transfers under way and
\* the RX ring hold is the part of the stream not yet consumed. A get-message
\* that finds the complete frame at the head of the RX ring returns the
\* payload length and the payload, every non-zero return delivers exactly a
\* payload that was put and consumes exactly its frame, and a call that
\* returns 0 because only part of the frame has arrived consumes nothing.
C18_MsgRoundTrip ==
  /\ []((~purged /\ fg.op \notin PutOps) =>
          IsSuffix(rx \o Flat(outFifo) \o tx, put))
  /\ [][ (Returns("getmsg") /\ ~purged) =>
           /\ FramedAt(fg.seen, 0) =>
                /\ ret'.val = fg.seen[2] - MSG_STRUCTURE_LENGTH
                /\ ret'.data = SubSeq(fg.seen, 3, fg.seen[2] - 1)
           /\ ret'.val # 0 =>
                /\ ret'.data \in LoopMsgs
                /\ ret'.val = Len(ret'.data)
                /\ fg.taken = <<MSG_FIRST_BYTE, ret'.val + 3>> \o ret'.data
                                 \o <<MSG_LAST_BYTE>>
           /\ ret'.val = 0 => fg.taken = <<>> ]_vars

\* C18 witness: the 252-byte payload, sent as four transfers, came back whole.
C18_Witness ==
  /\ ret.op = "getmsg" /\ ret.val = 252 /\ ret.data \in LoopMsgs
  /\ ~purged /\ rx = <<>> /\ fg.op = "none" /\ lastInLen = 63

\* C19: in every state between ticks the ZLP-required flag is true exactly
\* when an IN transfer was issued and the most recent one carried exactly
\* MAX_PACKET_SIZE (64) bytes; and only a tick in which tx_pump issues a
\* transfer changes the flag (no put, no not-ready tick, no purge does).
C19_ZlpFlag ==
  /\ [](txZlp <=> lastInLen = USBUART_MAX_PACKET_SIZE)
  /\ [][ txZlp' # txZlp => (inToggle' # inToggle /\ UNCHANGED <<fg, fgObs>>) ]_vars

\* C19 witness: the flag is still set after a 64-byte transfer although bytes
\* were put and not-ready ticks counted since.
C19_Witness ==
  txZlp /\ lastInLen = USBUART_MAX_PACKET_SIZE /\ tx # <<>> /\ txReject = 3

\* A step that is a stall-recovery purge: the TX-reject counter stood at
\* TX_MAX_REJECT and is reset without a transfer being issued.
PurgeStep == txReject = TX_MAX_REJECT /\ txReject' = 0 /\ inToggle' = inToggle

\* C20 as stated: right after the tick of a stall-recovery purge the TX side
\* is idle, whichever state the purge came from: TX ring empty, TX-reject
\* counter 0, ZLP-required flag false.
C20_PurgeLeavesIdle ==
  [][ PurgeStep => (tx' = <<>> /\ txReject' = 0 /\ ~txZlp') ]_vars

\* C20 amended: right after the tick of a stall-recovery purge the TX ring is
\* empty and the TX-reject counter 0, and the ZLP-required flag is what it was
\* before: the TX side is idle when no zero-length packet was owed, and still
\* owes it otherwise.
C20_PurgeKeepsZlp ==
  [][ PurgeStep => (tx' = <<>> /\ txReject' = 0 /\ txZlp' = txZlp) ]_vars

\* C20 witness: a purge happened while a zero-length packet was owed and the
\* TX ring was empty; the packet is still owed.
C20_Witness ==
  purged /\ lost = 0 /\ txZlp /\ tx = <<>> /\ txReject = 0 /\ streak = 0

\* What one tick does to the TX-reject counter, `due` telling whether the tick
\* has a transfer to attempt: the counter goes up by one exactly when a
\* transfer is due, IN is not ready and the counter is below TX_MAX_REJECT; it
\* is reset to 0 by a transfer and by a purge, and unchanged otherwise.
RejectCounts(due) ==
  \A ready \in BOOLEAN :
    LET t == _usbuart_tx_isr(ready)
    IN  /\ t.reject = txReject + 1 <=> (due /\ ~ready /\ txReject < TX_MAX_REJECT)
        /\ t.reject # txReject + 1 => t.reject \in {txReject, 0}
        /\ (t.sent \/ t.purge) => t.reject = 0
        /\ t.purge <=> (due /\ ~ready /\ txReject = TX_MAX_REJECT)

\* C21 as stated: a tick increments the TX-reject counter exactly when it finds
\* the TX ring non-empty and IN not ready, the counter never exceeds
\* TX_MAX_REJECT (8) between ticks, and bytes are purged only after more than
\* TX_MAX_REJECT consecutive not-ready ticks over a non-empty TX ring.
C21_CountsNonEmptyTicks ==
  /\ [](txReject <= TX_MAX_REJECT /\ RejectCounts(tx # <<>>))
  /\ [][ (PurgeStep /\ tx # <<>>) => streak >= TX_MAX_REJECT ]_vars

\* C21 amended: the counter is incremented exactly when the tick finds the TX
\* ring non-empty or a zero-length packet owed, and IN not ready; the counter
\* never exceeds TX_MAX_REJECT between ticks; a purge happens only after more
\* than TX_MAX_REJECT consecutive ticks that had a transfer due (bytes or the
\* zero-length packet) and found IN not ready.
C21_CountsDueTicks ==
  /\ [](txReject <= TX_MAX_REJECT /\ RejectCounts(tx # <<>> \/ txZlp))
  /\ [][ PurgeStep => stall >= TX_MAX_REJECT ]_vars

\* C21 witness: a byte put while a zero-length packet had been refused 8 times
\* was purged by the first tick that found it.
C21_Witness ==
  lost = 1 /\ txZlp /\ tx = <<>> /\ txReject = 0 /\ stall = TX_MAX_REJECT + 1

\* Byte sequence q starts with a false candidate: FIRST_BYTE, a LENGTH of at
\* least 1 with that many bytes present, and no LAST_BYTE at offset LENGTH - 1.
FalseStart(q) ==
  /\ Len(q) >= MSG_HEADER_LENGTH
  /\ q[1] = MSG_FIRST_BYTE
  /\ q[2] >= 1 /\ Len(q) >= q[2]
  /\ q[q[2]] # MSG_LAST_BYTE

\* The step of get-message that compares the footer, taken on a false
\* candidate at the head of the RX ring.
FooterMismatch ==
  /\ fg.op = "getmsg" /\ fg.pc = "peeklast" /\ fg' # fg
  /\ FalseStart(rx) /\ fg.len = rx[2]

\* C22 as stated: on a false candidate get-message discards the two header
\* bytes (FIRST_BYTE and LENGTH) and restarts the search in the same call.
C22_SkipsHeader ==
  [][ FooterMismatch =>
        /\ fg'.op = "getmsg" /\ fg'.pc = "find"
        /\ rx' = SubSeq(rx, MSG_HEADER_LENGTH + 1, Len(rx)) ]_vars

\* C22 amended: on a false candidate get-message discards one byte, the
\* FIRST_BYTE of the candidate, and restarts the search in the same call; when
\* the next FIRST_BYTE in the ring starts a complete well-formed message, that
\* same call returns its payload and has consumed everything up to its end.
C22_SkipsFirstByte ==
  /\ [][ FooterMismatch =>
           /\ fg'.op = "getmsg" /\ fg'.pc = "find"
           /\ rx' = Tail(rx)
           /\ fg'.taken = Append(fg.taken, MSG_FIRST_BYTE) ]_vars
  /\ [][ (Returns("getmsg") /\ FalseStart(fg.seen)) =>
           LET q == Tail(fg.seen)
               k == ringbuf_findchr(q, MSG_FIRST_BYTE)
           IN  FramedAt(q, k) =>
                 /\ ret'.val = q[k + 2] - MSG_STRUCTURE_LENGTH
                 /\ ret'.data = SubSeq(q, k + MSG_HEADER_LENGTH + 1, k + q[k + 2] - 1)
                 /\ fg.taken = SubSeq(fg.seen, 1, 1 + k + q[k + 2]) ]_vars

\* C22 witness: from FIRST 5 X Y Z FIRST 5 A B LAST the call is about to
\* return 2 and A B, having consumed all ten bytes.
C22_Witness ==
  /\ fg.op = "getmsg" /\ fg.pc = "exit"
  /\ fg.seen = <<MSG_FIRST_BYTE, 5, 88, 89, 90, MSG_FIRST_BYTE, 5, 65, 66, MSG_LAST_BYTE>>
  /\ fg.count = 2 /\ fg.arg = <<65, 66>> /\ fg.taken = fg.seen

\* The host offers a packet larger than the free space of the RX ring, and
\* the ring holds no byte c.
Stalled(c) ==
  /\ outFifo # <<>>
  /\ Len(Head(outFifo)) > ringbuf_bytes_free(rx, RX_BUFFER_SIZE)
  /\ ringbuf_findchr(rx, c) = ringbuf_bytes_used(rx)

\* The foreground is between calls or in a call of `op` that began on the RX
\* ring as it is now.
Within(op) ==
  fg.op = "none" \/ (fg.op = op /\ fg.seen = rx /\ fg.taken = <<>>)

\* Once stalled, ticks and calls of `op` change neither the RX ring nor the
\* OUT endpoint, the calls return 0, and the stall goes on.
StallPersists(op, c) ==
  (Stalled(c) /\ Within(op) /\ fg'.op \in {"none", op}) =>
    /\ rx' = rx /\ outFifo' = outFifo
    /\ Stalled(c)' /\ Within(op)'
    /\ Returns(op) => ret'.val = 0

\* C23: when the host offers an OUT packet larger than the free space of the
\* RX ring and the ring holds no LINE_TERMINATOR (resp. no FIRST_BYTE), every
\* get-line (resp. get-message) called from then on returns 0 and consumes
\* nothing and every tick leaves the RX ring and the OUT endpoint unchanged,
\* so the stall persists under any such calls and ticks; a get-byte removes a
\* byte and so frees space.
C23_ReceptionStalls ==
  [][ /\ StallPersists("getline", USBUART_LINE_TERMINATOR)
      /\ StallPersists("getmsg", MSG_FIRST_BYTE)
      /\ (fg.op = "getch" /\ fg.pc = "copy" /\ fg' # fg) =>
           ringbuf_bytes_free(rx', RX_BUFFER_SIZE)
             = ringbuf_bytes_free(rx, RX_BUFFER_SIZE) + 1 ]_vars

\* C23 witness: the RX ring holds 254 unframed bytes after two get-byte
\* calls, the host offers 10 bytes, and a get-message call that began in this
\* state is about to return 0.
C23_Witness ==
  /\ Stalled(USBUART_LINE_TERMINATOR) /\ Stalled(MSG_FIRST_BYTE)
  /\ Len(rx) = RX_BUFFER_SIZE - 2 /\ Len(got) = 2
  /\ fg.op = "getmsg" /\ fg.pc = "used" /\ fg.seen = rx

====
